---- MODULE Spec2Model ----
(***************************************************************************)
(* rustybrain: the note codec (rustybrain-core/src/zettel/mod.rs), the     *)
(* slip-box (Kasten) that serves notes, searches and backlinks, the search *)
(* dialog (rustybrain-gtk/src/search/mod.rs) and the editor                *)
(* (rustybrain-gtk/src/editor/mod.rs) that consume it, and the loader of   *)
(* the configuration file (rustybrain-core/src/config.rs).                 *)
(*                                                                         *)
(* Text is a sequence of symbols.  "+" and LF are single characters, BAD   *)
(* is a byte that is not valid UTF-8; every other symbol is a run of       *)
(* characters holding neither "+" at its start nor a line break: a TOML    *)
(* key/value line, or a word of body text (a title, an identity).  The     *)
(* brackets of an inline link are single characters.                       *)
(***************************************************************************)
EXTENDS Integers, Sequences, FiniteSets, TLC

\* ------------------------------------------------------------------ bounds
\* Lines in a file the codec specification enumerates.
MaxLines == 4
\* Pieces of link syntax in a body the link specification enumerates.
MaxPieces == 3
\* Notes on the editing stack of the sessions the editor specification enumerates.
MaxStack == 2

\* ---------------------------------------------------------------- alphabet
LF == "\n"
PLUS == "+"
BAD == "<invalid utf-8>"

Ids == {"a", "b"}
Titles == {"Second Brain", "Brainstorm", "Notes"}

TitleLine(t) == "title = \"" \o t \o "\""
OtherKey == "tags = 1"
Word == "x"
LB == "["
RB == "]"
LP == "("
RP == ")"
\* The text `[t](id)`.
LinkText(t, id) == <<LB, t, RB, LP, id, RP>>

\* ------------------------------------------------------- std::io / str
\* BufRead::read_line on a Cursor: the bytes up to and including the first
\* line break, or up to the end of the data; an error (nothing consumed into
\* the caller's view) when those bytes are not UTF-8.
read_line(buf) ==
    LET Take(k) ==
            IF \E i \in 1..k : buf[i] = BAD
            THEN [ok |-> FALSE, line |-> <<>>, rest |-> SubSeq(buf, k+1, Len(buf))]
            ELSE [ok |-> TRUE, line |-> SubSeq(buf, 1, k),
                  rest |-> SubSeq(buf, k+1, Len(buf))]
    IN  Take(IF \E i \in 1..Len(buf) : buf[i] = LF
             THEN CHOOSE i \in 1..Len(buf) :
                      buf[i] = LF /\ \A j \in 1..(i-1) : buf[j] # LF
             ELSE Len(buf))

\* str::strip_prefix("+"): Some(remainder) when the text starts with one "+".
strip_prefix(s) ==
    IF Len(s) > 0 /\ s[1] = PLUS
    THEN [some |-> TRUE, remain |-> Tail(s)]
    ELSE [some |-> FALSE, remain |-> <<>>]

\* Read::read_to_string on the cursor: the rest of the data, an error when it
\* is not UTF-8.
read_to_string(buf) ==
    IF \E i \in 1..Len(buf) : buf[i] = BAD
    THEN [ok |-> FALSE, text |-> <<>>]
    ELSE [ok |-> TRUE, text |-> buf]

\* ------------------------------------------------------------ toml::from_str
\* The lines of a text, without their line breaks.
RECURSIVE SplitLines(_)
SplitLines(s) ==
    LET Cut(k) == <<SubSeq(s, 1, IF s[k] = LF THEN k-1 ELSE k)>>
                      \o SplitLines(SubSeq(s, k+1, Len(s)))
    IN  IF s = <<>> THEN <<>> ELSE Cut(Len(s) - Len(read_line(s).rest))

IsTitleLine(l) == Len(l) = 1 /\ \E t \in Titles \cup {""} : l[1] = TitleLine(t)
TitleOf(l) == CHOOSE t \in Titles \cup {""} : l[1] = TitleLine(t)

NoHeader == [title |-> "", raw |-> <<>>]

\* toml::from_str::<ZettelHeader>: every line is blank or one `key = value`; no
\* key twice; the struct's one required field, `title`, is there.  Unknown
\* keys are ignored and `raw` is #[serde(skip)], so it is always the default.
toml_from_str(raw) ==
    LET Parse(ls) ==
            LET Check(titleAt, otherAt) ==
                    IF /\ \A i \in 1..Len(ls) :
                              ls[i] = <<>> \/ i \in titleAt \/ i \in otherAt
                       /\ Cardinality(titleAt) = 1
                       /\ Cardinality(otherAt) <= 1
                    THEN [ok |-> TRUE,
                          header |-> [title |-> TitleOf(ls[CHOOSE i \in titleAt : TRUE]),
                                      raw |-> <<>>]]
                    ELSE [ok |-> FALSE, header |-> NoHeader]
            IN  Check({i \in 1..Len(ls) : IsTitleLine(ls[i])},
                      {i \in 1..Len(ls) : ls[i] = <<OtherKey>>})
    IN  Parse(SplitLines(raw))

\* ------------------------------------------------------------- ZettelHeader
\* The `loop` of ZettelHeader::read (lines 59-69): read a line; a line that is
\* "+" and nothing else ends the header; any other line is appended.  At end
\* of data read_line yields the empty line again and again, the cursor and the
\* header stay as they are, and the loop never ends: kind "Diverge".
RECURSIVE read_loop(_, _)
read_loop(cursor, header) ==
    LET Body(r, sp) ==
            IF ~r.ok THEN [kind |-> "IOError", header |-> <<>>, rest |-> r.rest]
            ELSE IF sp.some /\ sp.remain = <<>>
                 THEN [kind |-> "Ok", header |-> header, rest |-> r.rest]
            ELSE IF r.line = <<>>
                 THEN [kind |-> "Diverge", header |-> header, rest |-> r.rest]
            ELSE read_loop(r.rest, header \o r.line)
        Line(r) == Body(r, strip_prefix(r.line))
    IN  Line(read_line(cursor))

\* A reader that takes the end of the data for the closing delimiter line and
\* hands back the header lines gathered so far.
RECURSIVE read_loop_eof(_, _)
read_loop_eof(cursor, header) ==
    LET Body(r, sp) ==
            IF ~r.ok THEN [kind |-> "IOError", header |-> <<>>, rest |-> r.rest]
            ELSE IF sp.some /\ sp.remain \in {<<PLUS, PLUS, LF>>, <<PLUS, PLUS>>}
                 THEN [kind |-> "Ok", header |-> header, rest |-> r.rest]
            ELSE IF r.line = <<>>
                 THEN [kind |-> "Ok", header |-> header, rest |-> r.rest]
            ELSE read_loop_eof(r.rest, header \o r.line)
        Line(r) == Body(r, strip_prefix(r.line))
    IN  Line(read_line(cursor))

ZettelHeader_read_eof(cursor) ==
    LET Body(r, sp) ==
            IF ~r.ok THEN [kind |-> "IOError", header |-> <<>>, rest |-> r.rest]
            ELSE IF sp.some /\ sp.remain \in {<<PLUS, PLUS, LF>>, <<PLUS, PLUS>>}
                 THEN read_loop_eof(r.rest, <<>>)
            ELSE [kind |-> "Ok", header |-> <<>>, rest |-> <<>>]
        Line(r) == Body(r, strip_prefix(r.line))
    IN  Line(read_line(cursor))

\* ZettelHeader::read (lines 51-72).
ZettelHeader_read(cursor) ==
    LET Body(r, sp) ==
            IF ~r.ok THEN [kind |-> "IOError", header |-> <<>>, rest |-> r.rest]
            ELSE IF sp.some
                 THEN IF sp.remain # <<>>
                      THEN [kind |-> "Ok", header |-> <<>>, rest |-> r.rest]
                      ELSE read_loop(r.rest, <<>>)
            ELSE [kind |-> "Ok", header |-> <<>>, rest |-> r.rest]
        Line(r) == Body(r, strip_prefix(r.line))
    IN  Line(read_line(cursor))

\* ZettelHeader::from_cursor (lines 43-49).
ZettelHeader_from_cursor(cursor) ==
    LET Parsed(raw, s) ==
            IF ~s.ok
            THEN [kind |-> "ParseHeaderError", header |-> NoHeader, rest |-> raw.rest]
            ELSE [kind |-> "Ok", header |-> s.header, rest |-> raw.rest]
        Read(raw) ==
            IF raw.kind # "Ok"
            THEN [kind |-> raw.kind, header |-> NoHeader, rest |-> raw.rest]
            ELSE Parsed(raw, toml_from_str(raw.header))
    IN  Read(ZettelHeader_read(cursor))

\* ------------------------------------------------------------------- Zettel
NoZettel == [path |-> "", header |-> NoHeader, content |-> <<>>, link_to |-> <<>>]

\* A decoder that extracts the links while it reads the body and refuses a
\* `[` that no `]` closes.
Zettel_decode_links(path, buf) ==
    LET Content(h, c) ==
            IF ~c.ok THEN [kind |-> "IOError", io |-> "InvalidData", z |-> NoZettel]
            ELSE [kind |-> "Ok", io |-> "",
                  z |-> [path |-> path, header |-> h.header, content |-> c.text,
                         link_to |-> <<>>]]
        Header(h) ==
            IF h.kind = "IOError"
            THEN [kind |-> "IOError", io |-> "InvalidData", z |-> NoZettel]
            ELSE IF h.kind # "Ok" THEN [kind |-> h.kind, io |-> "", z |-> NoZettel]
            ELSE Content(h, read_to_string(h.rest))
    IN  IF \E i \in 1..Len(buf) : buf[i] = "[" /\ \A j \in (i+1)..Len(buf) : buf[j] # "]"
        THEN [kind |-> "ParseLinkError", io |-> "", z |-> NoZettel]
        ELSE Header(ZettelHeader_from_cursor(buf))

\* The part of Zettel::from_md after the file is read (lines 80-89): decode the
\* bytes `buf` of the file at `path`.  `io` is the io::ErrorKind an IOError
\* carries.
Zettel_decode(path, buf) ==
    LET Content(h, c) ==
            IF ~c.ok THEN [kind |-> "IOError", io |-> "InvalidData", z |-> NoZettel]
            ELSE [kind |-> "Ok", io |-> "",
                  z |-> [path |-> path, header |-> h.header, content |-> c.text,
                         link_to |-> <<>>]]
        Header(h) ==
            IF h.kind = "IOError"
            THEN [kind |-> "IOError", io |-> "InvalidData", z |-> NoZettel]
            ELSE IF h.kind # "Ok" THEN [kind |-> h.kind, io |-> "", z |-> NoZettel]
            ELSE Content(h, read_to_string(h.rest))
    IN  Header(ZettelHeader_from_cursor(buf))

\* Zettel::set_title and Zettel::set_content (lines 112, 114): empty bodies.
Zettel_set_title(z, title) == z
Zettel_set_content(z, content) == z

\* Zettel::path (lines 92-94): todo!(), a panic whenever it is called.
Todo == [panic |-> TRUE, val |-> ""]
Zettel_path(z) == Todo

\* Zettel::title (lines 96-98) and Zettel::content (lines 100-102): todo!().
Zettel_title(z) == Todo
Zettel_content(z) == Todo

\* The outgoing links a note carries: its link_to field (line 31).
Zettel_links(z) == {z.link_to[i] : i \in 1..Len(z.link_to)}

\* Note.new (spec 4.2): an empty, un-persisted note.
Zettel_new(id) ==
    [path |-> id, header |-> [title |-> "", raw |-> <<>>], content |-> <<>>,
     link_to |-> <<>>]

\* --------------------------------------------------------- codec, encoding
Delimiter == <<PLUS, PLUS, PLUS>>

\* Serialization (spec 4.1): the opening delimiter line, the metadata as
\* key/value text, the closing delimiter line, then the body verbatim.
Encode(title, body) ==
    Delimiter \o <<LF>> \o <<TitleLine(title), LF>> \o Delimiter \o <<LF>> \o body

\* Link Extractor (spec 4.3): the identities of the `[title](identity)`
\* occurrences of a text.
IsWord(c) == c \notin {LB, RB, LP, RP, LF, PLUS, BAD}

\* The position of the first `]` after position i, 0 when there is none.
TitleEnd(body, i) ==
    IF \E j \in (i+1)..Len(body) : body[j] = RB
    THEN CHOOSE j \in (i+1)..Len(body) :
             body[j] = RB /\ \A k \in (i+1)..(j-1) : body[k] # RB
    ELSE 0

\* The scan from position i on: at a `[`, a title up to the next `]`, then
\* `(`, an identity, `)` is a match and the scan goes on behind it; anything
\* else is skipped one character at a time.
RECURSIVE scan_links(_, _)
scan_links(body, i) ==
    LET Title(j) ==
            IF /\ j # 0
               /\ j + 3 <= Len(body)
               /\ body[j+1] = LP
               /\ IsWord(body[j+2])
               /\ body[j+3] = RP
            THEN {body[j+2]} \cup scan_links(body, j + 4)
            ELSE scan_links(body, i + 1)
    IN  IF i > Len(body) THEN {}
        ELSE IF body[i] # LB THEN scan_links(body, i + 1)
        ELSE Title(TitleEnd(body, i))

ExtractLinks(body) == scan_links(body, 1)

\* ---------------------------------------------------------------- matching
Chars(s) ==
    CASE s = "Second Brain" -> <<"S","e","c","o","n","d"," ","B","r","a","i","n">>
      [] s = "Brainstorm" -> <<"B","r","a","i","n","s","t","o","r","m">>
      [] s = "Notes" -> <<"N","o","t","e","s">>
      [] s = "brain" -> <<"b","r","a","i","n">>
      [] s = "NOTE" -> <<"N","O","T","E">>
      [] s = "zzz" -> <<"z","z","z">>
      [] OTHER -> <<>>

to_lowercase(c) ==
    CASE c = "S" -> "s" [] c = "B" -> "b" [] c = "N" -> "n" [] c = "O" -> "o"
      [] c = "T" -> "t" [] c = "E" -> "e" [] OTHER -> c

Lower(cs) == [i \in 1..Len(cs) |-> to_lowercase(cs[i])]

Contains(hay, needle) ==
    \E k \in 0..(Len(hay) - Len(needle)) :
        \A i \in 1..Len(needle) : hay[k + i] = needle[i]

\* Matching policy of search_title (spec 4.4): case-insensitive substring.
TitleMatches(title, q) == Contains(Lower(Chars(title)), Lower(Chars(q)))

\* ------------------------------------------------------ config.toml, Config
\* The text of a config file: its `key = value` lines, each under its table.
Entry(sec, key, val) == [sec |-> sec, key |-> key, val |-> val]
\* Bytes that are not UTF-8.
Invalid == Entry("", "", BAD)

\* DEFAULT_CONFIG_CONTENT (config.rs lines 163-212).
DEFAULT_CONFIG_CONTENT ==
    << Entry("repo", "path", "RustyBrain"),
       Entry("shortcut", "find", "<Control><Shift>f"),
       Entry("shortcut", "insert", "<Control>i"),
       Entry("shortcut", "quit", "<Meta>q"),
       Entry("colors", "primary", "#546E7A"),
       Entry("colors", "primary_text", "#FAFAFA"),
       Entry("colors", "primary_dark", "#29434e"),
       Entry("colors", "primary_light", "#819ca9"),
       Entry("colors", "secondary", "#B2EBF2"),
       Entry("colors", "secondary_light", "#e5ffff"),
       Entry("colors", "secondary_dark", "#81b9bf"),
       Entry("colors", "secondary_text", "#000000"),
       Entry("colors", "foreground", "#546E7A"),
       Entry("colors", "background", "#FAFAFA"),
       Entry("colors", "base00", "#FAFAFA"),
       Entry("colors", "base01", "#90A4AE"),
       Entry("colors", "base02", "#78909C"),
       Entry("colors", "base03", "#546E7A"),
       Entry("colors", "yellow", "#F57F17"),
       Entry("colors", "yellow1", "#F9A725"),
       Entry("colors", "brown", "#4E342E"),
       Entry("colors", "brown1", "#6D4C41"),
       Entry("colors", "orange", "#D84315"),
       Entry("colors", "orange1", "#FF5722"),
       Entry("colors", "red", "#D50000"),
       Entry("colors", "red1", "#FF1744"),
       Entry("colors", "pink", "#F8BBD0"),
       Entry("colors", "pink1", "#EC407A"),
       Entry("colors", "purple", "#7E57C2"),
       Entry("colors", "purple1", "#B388FF"),
       Entry("colors", "blue", "#42A5F5"),
       Entry("colors", "blue1", "#1E88E5"),
       Entry("colors", "indigo", "#5C6BC0"),
       Entry("colors", "indigo1", "#9FA8DA"),
       Entry("colors", "cyan", "#0097A7"),
       Entry("colors", "cyan1", "#00B8D4"),
       Entry("colors", "teal", "#26A69A"),
       Entry("colors", "teal1", "#00897B"),
       Entry("colors", "green", "#66BB6A"),
       Entry("colors", "green1", "#558B2F") >>

\* struct Color (lines 214-261), struct Shortcut (60-65), struct Repo (158-161),
\* struct Config (51-58): every field is required.
ColorFields ==
    { "primary", "primary_light", "primary_dark", "primary_text", "secondary",
    "secondary_light", "secondary_dark", "secondary_text", "foreground",
    "background", "yellow", "brown", "orange", "red", "pink", "purple",
    "blue", "indigo", "cyan", "teal", "green" }

Required ==
    {<<"repo", "path">>, <<"shortcut", "find">>, <<"shortcut", "insert">>,
     <<"shortcut", "quit">>} \cup {<<"colors", k>> : k \in ColorFields}

Keys(text) == {<<text[i].sec, text[i].key>> : i \in 1..Len(text)}
ValueOf(text, k) ==
    text[CHOOSE i \in 1..Len(text) : text[i].sec = k[1] /\ text[i].key = k[2]].val

NoValues == [k \in Required |-> ""]

\* Config::from_str (lines 68-71): toml::from_str::<Config>.  A key given
\* twice or a required field that is missing is a parse error; keys no field
\* takes are ignored.
Config_from_str(text) ==
    IF /\ \A k \in Required : k \in Keys(text)
       /\ \A i, j \in 1..Len(text) :
              (text[i].sec = text[j].sec /\ text[i].key = text[j].key) => i = j
    THEN [ok |-> TRUE, config |-> [k \in Required |-> ValueOf(text, k)]]
    ELSE [ok |-> FALSE, config |-> NoValues]

\* ==================================================================== state
VARIABLES
    fs,         \* the slip-box directory: identity -> [st, data]
    index,      \* Kasten's backlink index: [built, map]
    notes,      \* the notes the caller holds: identity -> [has, z]
    proc,       \* "running", "panicked" (todo!()), "hung" (a loop that never ends)
    s_kasten,   \* search::Model.kasten is Some
    s_zettels,  \* search::Model.zettels
    sent,       \* ShowMsg notifications the last handled message sent to the parent
    last,       \* the last slip-box call and what it returned
    cfg,        \* $HOME/.rustybrain, its config.toml and what load last returned
    editor,     \* editor::Model: base note and buffers, editing stack, inbox
    widgets     \* editor::Editor, the widgets view() sets: [save_btn]

vars == <<fs, index, notes, proc, s_kasten, s_zettels, sent, last, cfg, editor, widgets>>

Missing == [st |-> "missing", data |-> <<>>]
Denied == [st |-> "denied", data |-> <<>>]
File(data) == [st |-> "ok", data |-> data]

\* Directory-traversal order of the recursive walk.
WalkOrder == <<"a", "b">>

\* A from_md that reports every failure to open the file under one io kind.
Zettel_from_md_io(path) ==
    IF fs[path].st \in {"missing", "denied"}
    THEN [kind |-> "IOError", io |-> "PermissionDenied", z |-> NoZettel]
    ELSE Zettel_decode(path, fs[path].data)

\* Zettel::from_md (lines 76-90).
Zettel_from_md(path) ==
    IF fs[path].st = "missing" THEN [kind |-> "IOError", io |-> "NotFound", z |-> NoZettel]
    ELSE IF fs[path].st = "denied"
         THEN [kind |-> "IOError", io |-> "PermissionDenied", z |-> NoZettel]
    ELSE Zettel_decode(path, fs[path].data)

\* The configuration directory before the program first runs, nothing loaded.
NoRet == [kind |-> "", io |-> "", config |-> NoValues]
NoConfig ==
    [home |-> TRUE, full |-> FALSE, dir |-> "missing", file |-> Missing,
     op |-> "none", was |-> [dir |-> "", st |-> ""], ret |-> NoRet]

\* editor::Model after init_model (editor/mod.rs lines 238-263): no note, an
\* empty stack, empty buffers; nothing waits in the component's channel.
NoBuffer == [text |-> <<>>, modified |-> FALSE]
EditorNew ==
    [zettel |-> [some |-> FALSE, z |-> NoZettel], buffer |-> NoBuffer, title |-> "",
     stack |-> <<>>, inbox |-> <<>>]

\* The widgets after init_view (lines 342-404): the Save button is built with
\* gtk's default, sensitive (line 390).
EditorWidgets == [save_btn |-> TRUE]

\* Editor::view (lines 406-434), run after every message the component has
\* handled: the Save button follows model.buffer, the base buffer (line 420).
Editor_view(e) == [save_btn |-> e.buffer.modified]

\* ------------------------------------------------------- Kasten (spec 4.4)
IsPresent(p) == fs[p].st # "missing"
NoteFiles == SelectSeq(WalkOrder, IsPresent)

\* iterate(): one element per note file, in traversal order.
Kasten_iter == [i \in 1..Len(NoteFiles) |-> Zettel_from_md(NoteFiles[i])]

\* Decoding an element never returns: the sequence stops being produced there.
Hangs(elems) == \E i \in 1..Len(elems) : elems[i].kind = "Diverge"
FirstHang(elems) ==
    IF Hangs(elems)
    THEN CHOOSE i \in 1..Len(elems) :
            elems[i].kind = "Diverge" /\ \A j \in 1..(i-1) : elems[j].kind # "Diverge"
    ELSE Len(elems) + 1

OkNotes(elems) == {elems[i].z : i \in {j \in 1..Len(elems) : elems[j].kind = "Ok"}}
ErrCount(elems) == Cardinality({i \in 1..Len(elems) : elems[i].kind # "Ok"})

\* search_title(query): walks iterate(), tests each title; any failure makes
\* the call a SearchFailed error carrying the number of notes skipped.
Kasten_search_title_of(elems, q) ==
    LET Result(failed, hits) ==
            IF failed > 0
            THEN [kind |-> "SearchFailed", skipped |-> failed, set |-> hits]
            ELSE [kind |-> "Ok", skipped |-> 0, set |-> hits]
    IN  Result(ErrCount(elems),
               {z.path : z \in {n \in OkNotes(elems) :
                                    TitleMatches(n.header.title, q)}})

Kasten_search_title(q) == Kasten_search_title_of(Kasten_iter, q)

\* The index a full scan builds.
Kasten_build ==
    LET Scan(oks) ==
            [built |-> TRUE,
             map |-> [t \in Ids |-> {z.path : z \in {n \in oks : t \in Zettel_links(n)}}]]
    IN  Scan(OkNotes(Kasten_iter))

\* The index with one saved note's contribution patched in place.
Kasten_patch(ix, z) ==
    IF ~ix.built THEN ix
    ELSE [ix EXCEPT !.map = [t \in Ids |-> IF t \in Zettel_links(z)
                                             THEN ix.map[t] \cup {z.path}
                                             ELSE ix.map[t] \ {z.path}]]

NoIndex == [built |-> FALSE, map |-> [t \in Ids |-> {}]]

\* A save that drops the index as soon as it is called, before the write.
Kasten_save_index_invalidate(ix, z, ok) == NoIndex

\* The index after save(note): patched when the write succeeded, left alone
\* when it failed (spec 4.4: "After a successful save, ...").
Kasten_save_index(ix, z, ok) == IF ok THEN Kasten_patch(ix, z) ELSE ix

\* save(note): encode and write to the note's file; on success patch the index.
\* A write fails when the file system refuses it (`ioOk` false, or a file the
\* process may not open).
Kasten_save_ok(z, ioOk) == ioOk /\ fs[z.path].st # "denied"
Kasten_save_fs(z) == [fs EXCEPT ![z.path] = File(Encode(z.header.title, z.content))]

\* ------------------------------------------------------------------- inputs
Unclosed == Delimiter \o <<LF, TitleLine("Notes"), LF, Word, LF>>

InitFiles ==
    { Missing, Denied,
      File(<<>>),
      File(<<Word, LF>>),
      File(<<PLUS>>),
      File(<<BAD, LF>>),
      File(Unclosed),
      File(Encode("Notes", LinkText("x", "a"))),
      File(Encode("Brainstorm", LinkText("x", "b") \o <<LF>>)),
      File(Encode("Second Brain", <<Word>>)) }

SaveBodies == { <<>>, LinkText("x", "a"), LinkText("x", "b") \o <<LF, Word>> }
Queries == {"brain", "NOTE", "zzz", ""}

Call(op, id) ==
    [op |-> op, id |-> id, q |-> "", title |-> "", text |-> <<>>, kind |-> "",
     io |-> "", z |-> NoZettel, skipped |-> 0, set |-> {}, elems |-> <<>>]

Init ==
    /\ fs \in [Ids -> InitFiles]
    /\ index = NoIndex
    /\ notes = [id \in Ids |-> [has |-> FALSE, z |-> NoZettel]]
    /\ proc = "running"
    /\ s_kasten = FALSE
    /\ s_zettels = <<>>
    /\ sent = <<>>
    /\ last = Call("none", "")
    /\ cfg = NoConfig
    /\ editor = EditorNew
    /\ widgets = EditorWidgets

\* ------------------------------------------------------- slip-box callers
\* Note.new: a note for an identity not yet on disk.
ApiNew(id) ==
    /\ proc = "running"
    /\ fs[id].st = "missing"
    /\ ~notes[id].has
    /\ notes' = [notes EXCEPT ![id] = [has |-> TRUE, z |-> Zettel_new(id)]]
    /\ last' = Call("new", id)
    /\ UNCHANGED <<fs, index, proc, s_kasten, s_zettels, sent, cfg, editor, widgets>>

\* Kasten.load(identity) = Note.load.
ApiLoad(id) ==
    /\ proc = "running"
    /\ LET Got(r) ==
               /\ proc' = IF r.kind = "Diverge" THEN "hung" ELSE proc
               /\ notes' = IF r.kind = "Ok"
                           THEN [notes EXCEPT ![id] = [has |-> TRUE, z |-> r.z]]
                           ELSE notes
               /\ last' = [Call("load", id) EXCEPT !.kind = r.kind, !.io = r.io, !.z = r.z]
       IN  Got(Zettel_from_md(id))
    /\ UNCHANGED <<fs, index, s_kasten, s_zettels, sent, cfg, editor, widgets>>

\* A caller saves a note it holds with new text and title, the way the editor
\* does (editor/mod.rs lines 309-313): on a copy of the note, set_content,
\* set_title, then kasten.save.
ApiSave(id, title, text, ioOk) ==
    /\ proc = "running"
    /\ notes[id].has
    /\ LET Save(z, ok) ==
               /\ fs' = IF ok THEN Kasten_save_fs(z) ELSE fs
               /\ index' = Kasten_save_index(index, z, ok)
               /\ last' = [Call("save", id) EXCEPT !.title = title, !.text = text,
                              !.kind = IF ok THEN "Ok" ELSE "IOError", !.z = z]
           Edited(z) == Save(z, Kasten_save_ok(z, ioOk))
       IN  Edited(Zettel_set_title(Zettel_set_content(notes[id].z, text), title))
    /\ UNCHANGED <<notes, proc, s_kasten, s_zettels, sent, cfg, editor, widgets>>

\* A caller calls set_title / set_content on a note it holds.
ApiSetTitle(id, title) ==
    /\ proc = "running"
    /\ notes[id].has
    /\ notes' = [notes EXCEPT ![id].z = Zettel_set_title(@, title)]
    /\ last' = [Call("set_title", id) EXCEPT !.title = title]
    /\ UNCHANGED <<fs, index, proc, s_kasten, s_zettels, sent, cfg, editor, widgets>>

ApiSetBody(id, text) ==
    /\ proc = "running"
    /\ notes[id].has
    /\ notes' = [notes EXCEPT ![id].z = Zettel_set_content(@, text)]
    /\ last' = [Call("set_body", id) EXCEPT !.text = text]
    /\ UNCHANGED <<fs, index, proc, s_kasten, s_zettels, sent, cfg, editor, widgets>>

\* A caller reads the outgoing links of a note it holds.
ApiLinks(id) ==
    /\ proc = "running"
    /\ notes[id].has
    /\ last' = [Call("links", id) EXCEPT !.kind = "Ok", !.set = Zettel_links(notes[id].z)]
    /\ UNCHANGED <<fs, index, notes, proc, s_kasten, s_zettels, sent, cfg, editor, widgets>>

\* Kasten.iterate(), consumed to its end.
ApiIter ==
    /\ proc = "running"
    /\ LET Consume(elems) ==
               /\ proc' = IF Hangs(elems) THEN "hung" ELSE proc
               /\ last' = [Call("iter", "") EXCEPT
                              !.elems = SubSeq(elems, 1, FirstHang(elems) - 1)]
       IN  Consume(Kasten_iter)
    /\ UNCHANGED <<fs, index, notes, s_kasten, s_zettels, sent, cfg, editor, widgets>>

\* Kasten.search_title(q).
ApiSearch(q) ==
    /\ proc = "running"
    /\ LET Got(hangs, r) ==
               IF hangs
               THEN /\ proc' = "hung"
                    /\ last' = [Call("search", "") EXCEPT !.q = q]
               ELSE /\ proc' = proc
                    /\ last' = [Call("search", "") EXCEPT !.q = q, !.kind = r.kind,
                                   !.skipped = r.skipped, !.set = r.set]
       IN  Got(Hangs(Kasten_iter), Kasten_search_title(q))
    /\ UNCHANGED <<fs, index, notes, s_kasten, s_zettels, sent, cfg, editor, widgets>>

\* Kasten.backlinks(identity): builds the index on first use.
ApiBacklinks(id) ==
    /\ proc = "running"
    /\ IF ~index.built /\ Hangs(Kasten_iter)
       THEN /\ proc' = "hung"
            /\ index' = index
            /\ last' = Call("backlinks", id)
       ELSE LET Serve(ix) ==
                    /\ proc' = proc
                    /\ index' = ix
                    /\ last' = [Call("backlinks", id) EXCEPT !.kind = "Ok",
                                   !.set = ix.map[id]]
            IN  Serve(IF index.built THEN index ELSE Kasten_build)
    /\ UNCHANGED <<fs, notes, s_kasten, s_zettels, sent, cfg, editor, widgets>>

\* ------------------------------------------- search dialog (search/mod.rs)
LoadFailed == "Load notes from slip-box failed!"
SearchFailedMsg == "Search notes from slip-box failed!"

IsOk(e) == e.kind = "Ok"
IsErr(e) == e.kind # "Ok"
ZettelsOf(elems) == [i \in 1..Len(elems) |-> elems[i].z]
LoadFailures(elems) == [i \in 1..Len(elems) |-> LoadFailed]

\* Search::view (lines 175-187), run after every message the dialog has
\* handled: one row per entry of model.zettels, labelled item.title().
Search_view(zettels) ==
    IF zettels = <<>> THEN [panic |-> FALSE] ELSE [panic |-> Zettel_title(zettels[1]).panic]

\* Msg::Init (lines 60-79), `elems` being what kasten.iter() yields: every Ok
\* element is pushed, every Err element is a notification; then the kasten is
\* kept.  The parent sends Init once.
SearchInitOn(elems) ==
    /\ proc = "running"
    /\ ~s_kasten
    /\ LET Loop(es, hangs) ==
               /\ s_zettels' = s_zettels \o ZettelsOf(SelectSeq(es, IsOk))
               /\ sent' = LoadFailures(SelectSeq(es, IsErr))
               /\ proc' = IF hangs THEN "hung"
                          ELSE IF Search_view(s_zettels').panic THEN "panicked"
                          ELSE proc
               /\ s_kasten' = ~hangs
       IN  Loop(SubSeq(elems, 1, FirstHang(elems) - 1), Hangs(elems))
    /\ last' = Call("ui-init", "")
    /\ UNCHANGED <<fs, index, notes, cfg, editor, widgets>>

\* Msg::Init over the slip-box directory.
SearchInit == SearchInitOn(Kasten_iter)

\* The `for item in kasten.iter()` of Msg::Changed (lines 86-105), from element
\* i on; acc = [zettels, sent, proc].
RECURSIVE search_loop(_, _, _, _)
search_loop(elems, set, i, acc) ==
    LET OnPath(p) ==
            IF p.panic THEN [acc EXCEPT !.proc = "panicked"]
            ELSE search_loop(elems, set, i + 1,
                     IF p.val \in set
                     THEN [acc EXCEPT !.zettels = Append(acc.zettels, elems[i].z)]
                     ELSE acc)
    IN  IF i > Len(elems) THEN acc
        ELSE IF elems[i].kind = "Diverge" THEN [acc EXCEPT !.proc = "hung"]
        ELSE IF elems[i].kind = "Ok" THEN OnPath(Zettel_path(elems[i].z))
        ELSE search_loop(elems, set, i + 1,
                 [acc EXCEPT !.sent = Append(acc.sent, LoadFailed)])

\* The `match kasten.search_title(&s)` of Msg::Changed (lines 84-115), after
\* zettels.clear().
search_on_result(res, elems) ==
    IF res.kind = "Ok"
    THEN search_loop(elems, res.set, 1, [zettels |-> <<>>, sent |-> <<>>, proc |-> "running"])
    ELSE [zettels |-> <<>>, sent |-> <<SearchFailedMsg>>, proc |-> "running"]

\* Msg::Changed(s) (lines 80-117), `elems` being what kasten.iter() yields.
SearchChangedOn(q, elems) ==
    /\ proc = "running"
    /\ IF ~s_kasten
       THEN /\ s_zettels' = s_zettels
            /\ proc' = IF Search_view(s_zettels).panic THEN "panicked" ELSE proc
            /\ sent' = <<>>
            /\ last' = Call("ui", "")
       ELSE LET Done(out) ==
                    /\ s_zettels' = out.zettels
                    /\ sent' = out.sent
                    /\ proc' = IF out.proc = "running" /\ Search_view(out.zettels).panic
                               THEN "panicked" ELSE out.proc
                Searched(hangs, res) ==
                    IF hangs
                    THEN /\ s_zettels' = <<>>
                         /\ sent' = <<>>
                         /\ proc' = "hung"
                         /\ last' = [Call("ui-search", "") EXCEPT !.q = q]
                    ELSE /\ Done(search_on_result(res, elems))
                         /\ last' = [Call("ui-search", "") EXCEPT !.q = q,
                                        !.kind = res.kind, !.skipped = res.skipped,
                                        !.set = res.set, !.elems = elems]
            IN  Searched(Hangs(elems), Kasten_search_title_of(elems, q))
    /\ UNCHANGED <<fs, index, notes, s_kasten, cfg, editor, widgets>>

\* Msg::Changed(s) over the slip-box directory.
SearchChanged(q) == SearchChangedOn(q, Kasten_iter)

\* ------------------------------------------------- editor (editor/mod.rs)
SaveFailedMsg == "Save note failed: IOError"

\* z.id(): the identity of a note, the path it is stored at (spec 3).
Zettel_id(z) == z.path

\* Model::buffer (lines 86-93), Model::zettel (95-102, a clone),
\* Model::title (104-110): of the top of the stack, else of the base.
Model_buffer(e) == IF e.stack # <<>> THEN e.stack[Len(e.stack)].buffer ELSE e.buffer
Model_zettel(e) ==
    IF e.stack # <<>> THEN [some |-> TRUE, z |-> e.stack[Len(e.stack)].zettel]
    ELSE e.zettel
Model_title(e) == IF e.stack # <<>> THEN e.stack[Len(e.stack)].title ELSE e.title

\* A change made through the reference buffer() / title() returns.
WithBuffer(e, b) ==
    IF e.stack # <<>> THEN [e EXCEPT !.stack[Len(e.stack)].buffer = b]
    ELSE [e EXCEPT !.buffer = b]
WithTitle(e, t) ==
    IF e.stack # <<>> THEN [e EXCEPT !.stack[Len(e.stack)].title = t]
    ELSE [e EXCEPT !.title = t]

\* gtk::TextBuffer: every change of the text sets the modified bit.
set_text(text) == [text |-> text, modified |-> TRUE]
insert_at(b, pos, text) ==
    [text |-> SubSeq(b.text, 1, pos) \o text \o SubSeq(b.text, pos + 1, Len(b.text)),
     modified |-> TRUE]
set_modified(b, m) == [b EXCEPT !.modified = m]

\* Model::open_zettel (lines 112-116), content and title being what
\* z.content() and z.title() returned.
Model_open_zettel(e, z, content, title) ==
    [e EXCEPT !.buffer = set_text(content), !.title = title,
              !.zettel = [some |-> TRUE, z |-> z]]

\* Model::open_zettel_on_stack (lines 118-135).
Model_open_zettel_on_stack(e, z, content, title) ==
    [e EXCEPT !.stack = Append(@, [title |-> title, buffer |-> set_text(content),
                                   zettel |-> z])]

\* Model::pop_stack_and_insert (lines 137-141): the popped entry's note goes
\* to the component's own channel as Msg::Insert.  `saved` remembers, for the
\* claims, the identity and title the save before the pop wrote and how that
\* save ended.
Model_pop_stack_and_insert(e, saved) ==
    IF e.stack # <<>>
    THEN [e EXCEPT !.stack = SubSeq(@, 1, Len(@) - 1),
                   !.inbox = Append(@, [z |-> e.stack[Len(e.stack)].zettel,
                                        saved |-> saved])]
    ELSE e

\* The user edits the text of the view's buffer; its "changed" signal sends
\* Msg::Changed (line 147), handled at lines 273-276: set_modified(true).
\* Like every handled message it ends with view().
EdChanged(text) ==
    /\ proc = "running"
    /\ text # Model_buffer(editor).text
    /\ editor' = WithBuffer(editor, set_modified(set_text(text), TRUE))
    /\ sent' = <<>>
    /\ last' = [Call("Changed", "") EXCEPT !.text = text]
    /\ widgets' = Editor_view(editor')
    /\ UNCHANGED <<fs, index, notes, proc, s_kasten, s_zettels, cfg>>

\* The user types a title into the entry bound to title() (lines 355-360, 414);
\* no message is sent, so view does not run.
EdTitle(title) ==
    /\ proc = "running"
    /\ title # Model_title(editor)
    /\ editor' = WithTitle(editor, title)
    /\ sent' = <<>>
    /\ last' = [Call("EditTitle", "") EXCEPT !.title = title]
    /\ UNCHANGED <<fs, index, notes, proc, s_kasten, s_zettels, cfg, widgets>>

\* Msg::Open(z) (lines 278-281).
EdOpen(z) ==
    /\ proc = "running"
    /\ LET Opened(c, t) ==
               IF c.panic \/ t.panic
               THEN proc' = "panicked" /\ editor' = editor
               ELSE proc' = proc /\ editor' = Model_open_zettel(editor, z, c.val, t.val)
       IN  Opened(Zettel_content(z), Zettel_title(z))
    /\ sent' = <<>>
    /\ last' = [Call("Open", Zettel_id(z)) EXCEPT !.z = z]
    /\ widgets' = IF proc' = "running" THEN Editor_view(editor') ELSE widgets
    /\ UNCHANGED <<fs, index, notes, s_kasten, s_zettels, cfg>>

\* Msg::OpenOnStack(z) (lines 283-286).
EdOpenOnStack(z) ==
    /\ proc = "running"
    /\ Len(editor.stack) < MaxStack
    /\ LET Opened(c, t) ==
               IF c.panic \/ t.panic
               THEN proc' = "panicked" /\ editor' = editor
               ELSE /\ proc' = proc
                    /\ editor' = Model_open_zettel_on_stack(editor, z, c.val, t.val)
       IN  Opened(Zettel_content(z), Zettel_title(z))
    /\ sent' = <<>>
    /\ last' = [Call("OpenOnStack", Zettel_id(z)) EXCEPT !.z = z]
    /\ widgets' = IF proc' = "running" THEN Editor_view(editor') ELSE widgets
    /\ UNCHANGED <<fs, index, notes, s_kasten, s_zettels, cfg>>

\* Msg::Insert(z) (lines 287-293), the cursor standing at `pos`.
EdInsert(pos) ==
    /\ proc = "running"
    /\ editor.inbox # <<>>
    /\ pos \in 0..Len(Model_buffer(editor).text)
    /\ LET Insert(m, rest, t) ==
               /\ IF t.panic
                  THEN proc' = "panicked" /\ editor' = [editor EXCEPT !.inbox = rest]
                  ELSE /\ proc' = proc
                       /\ editor' = WithBuffer([editor EXCEPT !.inbox = rest],
                                         insert_at(Model_buffer(editor), pos,
                                                   LinkText(t.val, Zettel_id(m.z))))
               /\ last' = [Call("Insert", Zettel_id(m.z)) EXCEPT !.z = m.z,
                               !.title = m.saved.title, !.q = m.saved.id,
                               !.kind = m.saved.kind]
           Msg(m) == Insert(m, Tail(editor.inbox), Zettel_title(m.z))
       IN  Msg(Head(editor.inbox))
    /\ sent' = <<>>
    /\ widgets' = IF proc' = "running" THEN Editor_view(editor') ELSE widgets
    /\ UNCHANGED <<fs, index, notes, s_kasten, s_zettels, cfg>>

\* Msg::Save (lines 303-326); `ioOk`: the file system takes the write.
EdSave(ioOk) ==
    /\ proc = "running"
    /\ LET Saved(e, text, title, z, called, ok) ==
               /\ fs' = IF called /\ ok THEN Kasten_save_fs(z) ELSE fs
               /\ index' = IF called THEN Kasten_save_index(index, z, ok) ELSE index
               /\ sent' = IF called /\ ~ok THEN <<SaveFailedMsg>> ELSE <<>>
               /\ editor' = Model_pop_stack_and_insert(
                                WithBuffer(e, set_modified(Model_buffer(e), FALSE)),
                                [title |-> title, id |-> Zettel_id(z),
                                 kind |-> IF called /\ ok THEN "Ok" ELSE "IOError"])
               /\ last' = [Call("Save", Zettel_id(z)) EXCEPT !.text = text,
                               !.title = title, !.z = z,
                               !.kind = IF ~called THEN "none"
                                        ELSE IF ok THEN "Ok" ELSE "IOError"]
           Edited(e, text, title, zettel, z) ==
               Saved(e, text, title, z, zettel.some,
                     zettel.some /\ Kasten_save_ok(z, ioOk))
           Modified(e, text, title, zettel) ==
               Edited(e, text, title, zettel,
                      Zettel_set_title(Zettel_set_content(zettel.z, text), title))
       IN  IF Model_buffer(editor).modified
           THEN Modified(editor, Model_buffer(editor).text, Model_title(editor),
                         Model_zettel(editor))
           ELSE /\ UNCHANGED <<fs, index, editor>>
                /\ sent' = <<>>
                /\ last' = [Call("Save", "") EXCEPT !.kind = "unmodified"]
    /\ widgets' = Editor_view(editor')
    /\ UNCHANGED <<notes, proc, s_kasten, s_zettels, cfg>>

Next ==
    \/ \E id \in Ids : ApiNew(id)
    \/ \E id \in Ids : ApiLoad(id)
    \/ \E id \in Ids, t \in Titles, b \in SaveBodies, ioOk \in BOOLEAN : ApiSave(id, t, b, ioOk)
    \/ \E id \in Ids, t \in Titles : ApiSetTitle(id, t)
    \/ \E id \in Ids, b \in SaveBodies : ApiSetBody(id, b)
    \/ \E id \in Ids : ApiLinks(id)
    \/ ApiIter
    \/ \E q \in Queries : ApiSearch(q)
    \/ \E id \in Ids : ApiBacklinks(id)
    \/ SearchInit
    \/ \E q \in Queries : SearchChanged(q)

Spec == Init /\ [][Next]_vars

\* =========================================================== editor inputs
\* The notes the parent window hands to the editor.
NoteOf(id, title, content) ==
    [path |-> id, header |-> [title |-> title, raw |-> <<>>], content |-> content,
     link_to |-> <<>>]
EdNotes == { NoteOf("a", "Notes", <<Word>>), NoteOf("b", "Brainstorm", <<>>) }
EdTexts == { LinkText("x", "b"), <<Word, LF>> }
EdTitles == { "Second Brain" }
EdFiles == { Missing, Denied, File(Encode("Notes", <<Word>>)) }

\* The editing sessions of at most n stacked notes over a base: what
\* open_zettel and open_zettel_on_stack build from notes whose text and title
\* are at hand.
RECURSIVE StackedUpTo(_, _)
StackedUpTo(e, n) ==
    IF n = 0 THEN {e}
    ELSE {e} \cup UNION {StackedUpTo(Model_open_zettel_on_stack(
                                         e, z, z.content, z.header.title), n - 1) :
                             z \in EdNotes}

EdSessions ==
    StackedUpTo(EditorNew, MaxStack)
        \cup UNION {StackedUpTo(Model_open_zettel(EditorNew, z, z.content,
                                                   z.header.title), MaxStack) :
                       z \in EdNotes}

EditorInit ==
    /\ fs \in [Ids -> EdFiles]
    /\ editor \in EdSessions
    /\ widgets = IF editor = EditorNew THEN EditorWidgets ELSE Editor_view(editor)
    /\ index = NoIndex
    /\ notes = [id \in Ids |-> [has |-> FALSE, z |-> NoZettel]]
    /\ proc = "running"
    /\ s_kasten = FALSE
    /\ s_zettels = <<>>
    /\ sent = <<>>
    /\ last = Call("none", "")
    /\ cfg = NoConfig

EditorNext ==
    \/ \E text \in EdTexts : EdChanged(text)
    \/ \E title \in EdTitles : EdTitle(title)
    \/ \E z \in EdNotes : EdOpen(z)
    \/ \E z \in EdNotes : EdOpenOnStack(z)
    \/ \E pos \in 0..Len(LinkText("x", "b")) : EdInsert(pos)
    \/ \E ioOk \in BOOLEAN : EdSave(ioOk)

EditorSpec == EditorInit /\ [][EditorNext]_vars

\* ============================================================ codec inputs
\* Every file of at most MaxLines lines drawn from CodecLines, the last line
\* with or without its line break.
CodecLines ==
    { Delimiter, <<PLUS>>, <<TitleLine("Notes")>>, <<OtherKey>>, <<Word>>, <<>>, <<BAD>> }

RECURSIVE TextsUpTo(_)
TextsUpTo(n) ==
    IF n = 0 THEN {<<>>}
    ELSE {<<>>} \cup {l \o <<LF>> \o t : l \in CodecLines, t \in TextsUpTo(n - 1)}

CodecFiles ==
    TextsUpTo(MaxLines) \cup {SubSeq(t, 1, Len(t) - 1) : t \in TextsUpTo(MaxLines) \ {<<>>}}

\* A text the codec can be asked to store as a body: valid UTF-8.
IsText(t) == \A i \in 1..Len(t) : t[i] # BAD
HasLine(t, l) == \E i \in 1..Len(SplitLines(t)) : SplitLines(t)[i] = l
FirstLine(t) == IF t = <<>> THEN <<>> ELSE SplitLines(t)[1]

CodecInit ==
    /\ \E f \in CodecFiles : fs = [id \in Ids |-> IF id = "a" THEN File(f) ELSE Missing]
    /\ index = NoIndex
    /\ notes = [id \in Ids |-> [has |-> FALSE, z |-> NoZettel]]
    /\ proc = "running"
    /\ s_kasten = FALSE
    /\ s_zettels = <<>>
    /\ sent = <<>>
    /\ last = Call("none", "")
    /\ cfg = NoConfig
    /\ editor = EditorNew
    /\ widgets = EditorWidgets

\* decode(encode(metadata, body)) for a title and the text of file "a" as body.
CodecRoundTrip(title) ==
    /\ proc = "running"
    /\ IsText(fs["a"].data)
    /\ LET Got(r) ==
               last' = [Call("roundtrip", "a") EXCEPT !.title = title,
                           !.text = fs["a"].data, !.kind = r.kind, !.io = r.io, !.z = r.z]
       IN  Got(Zettel_decode("a", Encode(title, fs["a"].data)))
    /\ UNCHANGED <<fs, index, notes, proc, s_kasten, s_zettels, sent, cfg, editor, widgets>>

CodecNext ==
    \/ ApiLoad("a")
    \/ \E t \in Titles : CodecRoundTrip(t)

CodecSpec == CodecInit /\ [][CodecNext]_vars

\* ============================================================= link inputs
\* Every body of at most MaxPieces pieces: whole links, links cut short, and
\* the single characters that can complete or break them.
LinkPieces ==
    { LinkText("x", "a"), LinkText("x", "b"),
      <<LB>>, <<RB>>, <<LP>>, <<RP>>, <<"a">>, <<LF>>,
      <<LB, Word, RB>>, <<LB, Word, RB, LP, "a">>, <<LP, "b", RP>> }

RECURSIVE PiecesUpTo(_)
PiecesUpTo(n) ==
    IF n = 0 THEN {<<>>}
    ELSE {<<>>} \cup {p \o t : p \in LinkPieces, t \in PiecesUpTo(n - 1)}

LinkBodies == PiecesUpTo(MaxPieces)

LinkInit ==
    /\ \E b \in LinkBodies :
           fs = [id \in Ids |-> IF id = "a" THEN File(Encode("Notes", b)) ELSE Missing]
    /\ index = NoIndex
    /\ notes = [id \in Ids |-> [has |-> FALSE, z |-> NoZettel]]
    /\ proc = "running"
    /\ s_kasten = FALSE
    /\ s_zettels = <<>>
    /\ sent = <<>>
    /\ last = Call("none", "")
    /\ cfg = NoConfig
    /\ editor = EditorNew
    /\ widgets = EditorWidgets

\* The Link Extractor applied to the body stored in a file.
ApiExtract(id) ==
    /\ proc = "running"
    /\ fs[id].st = "ok"
    /\ LET Got(body) ==
               last' = [Call("extract", id) EXCEPT !.text = body, !.kind = "Ok",
                           !.set = ExtractLinks(body)]
       IN  Got(SubSeq(fs[id].data, Len(Encode("", <<>>)) + 1, Len(fs[id].data)))
    /\ UNCHANGED <<fs, index, notes, proc, s_kasten, s_zettels, sent, cfg, editor, widgets>>

LinkNext ==
    \/ ApiExtract("a")
    \/ ApiLoad("a")

LinkSpec == LinkInit /\ [][LinkNext]_vars

\* =========================================================== dialog inputs
\* What a slip-box whose notes load can yield to the dialog: for each file of
\* the walk, in order, a note or an error.
YieldOk(id, title) == [kind |-> "Ok", io |-> "", z |-> NoteOf(id, title, <<>>)]
YieldErrs ==
    { [kind |-> "ParseHeaderError", io |-> "", z |-> NoZettel],
      [kind |-> "IOError", io |-> "PermissionDenied", z |-> NoZettel] }

RECURSIVE YieldsFrom(_)
YieldsFrom(i) ==
    IF i > Len(WalkOrder) THEN {<<>>}
    ELSE {<<>>} \cup {<<e>> \o t : e \in YieldErrs \cup {YieldOk(WalkOrder[i], ti) : ti \in Titles},
                                  t \in YieldsFrom(i + 1)}

Yields == YieldsFrom(1)

DialogInit ==
    /\ fs = [id \in Ids |-> Missing]
    /\ index = NoIndex
    /\ notes = [id \in Ids |-> [has |-> FALSE, z |-> NoZettel]]
    /\ proc = "running"
    /\ s_kasten = FALSE
    /\ s_zettels = <<>>
    /\ sent = <<>>
    /\ last = Call("none", "")
    /\ cfg = NoConfig
    /\ editor = EditorNew
    /\ widgets = EditorWidgets

DialogNext ==
    \/ \E elems \in Yields : SearchInitOn(elems)
    \/ \E q \in Queries, elems \in Yields : SearchChangedOn(q, elems)

DialogSpec == DialogInit /\ [][DialogNext]_vars

\* ==================================================== config (config.rs)
\* cfg.home: $HOME lets the process create entries; cfg.full: the disk takes no
\* more data; cfg.dir: $HOME/.rustybrain is "missing", a directory the process
\* may write ("dir") or only read ("rodir"), or not a directory ("notdir");
\* cfg.file: config.toml inside it.

\* ConfigLoader::is_exists (lines 127-132) on self.dir.
ConfigLoader_is_exists(c) == c.dir # "missing"

\* ConfigLoader::create_dir (lines 119-125).
ConfigLoader_create_dir(c) ==
    IF ConfigLoader_is_exists(c) THEN [ok |-> TRUE, io |-> "", c |-> c]
    ELSE IF c.home THEN [ok |-> TRUE, io |-> "", c |-> [c EXCEPT !.dir = "dir"]]
    ELSE [ok |-> FALSE, io |-> "PermissionDenied", c |-> c]

\* File::open(&self.path): "" when the file opens, else the io::ErrorKind.
File_open(c) ==
    IF c.dir = "notdir" THEN "NotADirectory"
    ELSE IF c.dir = "missing" \/ c.file.st = "missing" THEN "NotFound"
    ELSE IF c.file.st = "denied" THEN "PermissionDenied"
    ELSE ""

\* ConfigLoader::create_default (lines 144-148): File::create, then write_all.
ConfigLoader_create_default(c) ==
    IF c.dir # "dir" THEN [ok |-> FALSE, io |-> "PermissionDenied", c |-> c]
    ELSE IF c.full
         THEN [ok |-> FALSE, io |-> "StorageFull", c |-> [c EXCEPT !.file = File(<<>>)]]
    ELSE [ok |-> TRUE, io |-> "", c |-> [c EXCEPT !.file = File(DEFAULT_CONFIG_CONTENT)]]

\* An attempt_set_default that writes the defaults without looking for the
\* file first.
ConfigLoader_attempt_set_default_always(c) == ConfigLoader_create_default(c)

\* An attempt_set_default that takes a missing file for done.
ConfigLoader_attempt_set_default_skip(c) ==
    LET Opened(e) ==
            IF e \in {"", "NotFound"} THEN [ok |-> TRUE, io |-> "", c |-> c]
            ELSE [ok |-> FALSE, io |-> e, c |-> c]
    IN  Opened(File_open(c))

\* ConfigLoader::attempt_set_default (lines 134-142).
ConfigLoader_attempt_set_default(c) ==
    LET Opened(e) ==
            IF e = "" THEN [ok |-> TRUE, io |-> "", c |-> c]
            ELSE IF e = "NotFound" THEN ConfigLoader_create_default(c)
            ELSE [ok |-> FALSE, io |-> e, c |-> c]
    IN  Opened(File_open(c))

\* ConfigLoader::load_config (lines 150-155): open, read_to_end, from_utf8.
ConfigLoader_load_config(c) ==
    LET Opened(e) ==
            IF e # "" THEN [kind |-> "IOError", io |-> e, text |-> <<>>]
            ELSE IF \E i \in 1..Len(c.file.data) : c.file.data[i] = Invalid
                 THEN [kind |-> "CodecError", io |-> "", text |-> <<>>]
            ELSE [kind |-> "Ok", io |-> "", text |-> c.file.data]
    IN  Opened(File_open(c))

\* ConfigLoader::load (lines 112-117).
ConfigLoader_load(c0) ==
    LET Err(c, io) == [c |-> c, ret |-> [kind |-> "IOError", io |-> io, config |-> NoValues]]
        Parsed(c, p) ==
            IF p.ok THEN [c |-> c, ret |-> [kind |-> "Ok", io |-> "", config |-> p.config]]
            ELSE [c |-> c, ret |-> [kind |-> "ParseError", io |-> "", config |-> NoValues]]
        Content(c, r) ==
            IF r.kind # "Ok"
            THEN [c |-> c, ret |-> [kind |-> r.kind, io |-> r.io, config |-> NoValues]]
            ELSE Parsed(c, Config_from_str(r.text))
        Default(d) == IF ~d.ok THEN Err(d.c, d.io)
                      ELSE Content(d.c, ConfigLoader_load_config(d.c))
        Dir(d) == IF ~d.ok THEN Err(d.c, d.io)
                  ELSE Default(ConfigLoader_attempt_set_default(d.c))
    IN  Dir(ConfigLoader_create_dir(c0))

\* A config the user wrote, one that lacks a required colour, an empty file
\* and one that is not text.
CustomConfig ==
    [i \in 1..Len(DEFAULT_CONFIG_CONTENT) |->
        IF DEFAULT_CONFIG_CONTENT[i].key \in {"red", "path"}
        THEN [DEFAULT_CONFIG_CONTENT[i] EXCEPT !.val = "custom"]
        ELSE DEFAULT_CONFIG_CONTENT[i]]
IsNotRed(e) == e.key # "red"
ConfigFiles ==
    { Missing, Denied, File(DEFAULT_CONFIG_CONTENT), File(CustomConfig), File(<<>>),
      File(SelectSeq(DEFAULT_CONFIG_CONTENT, IsNotRed)), File(<<Invalid>>) }

ConfigInit ==
    /\ \E home \in BOOLEAN, full \in BOOLEAN,
          dir \in {"missing", "dir", "rodir", "notdir"}, f \in ConfigFiles :
           /\ (dir \in {"missing", "notdir"}) => f = Missing
           /\ cfg = [NoConfig EXCEPT !.home = home, !.full = full, !.dir = dir,
                                     !.file = f]
    /\ fs = [id \in Ids |-> Missing]
    /\ index = NoIndex
    /\ notes = [id \in Ids |-> [has |-> FALSE, z |-> NoZettel]]
    /\ proc = "running"
    /\ s_kasten = FALSE
    /\ s_zettels = <<>>
    /\ sent = <<>>
    /\ last = Call("none", "")
    /\ editor = EditorNew
    /\ widgets = EditorWidgets

\* The program starts and loads its configuration.
ConfigLoad ==
    /\ LET Done(r) ==
               cfg' = [cfg EXCEPT !.dir = r.c.dir, !.file = r.c.file, !.op = "load",
                                  !.was = [dir |-> cfg.dir, st |-> cfg.file.st],
                                  !.ret = r.ret]
       IN  Done(ConfigLoader_load([home |-> cfg.home, full |-> cfg.full,
                                   dir |-> cfg.dir, file |-> cfg.file]))
    /\ UNCHANGED <<fs, index, notes, proc, s_kasten, s_zettels, sent, last, editor, widgets>>

\* Between two runs the user rewrites or removes config.toml.
ConfigEdit(f) ==
    /\ cfg.dir = "dir"
    /\ cfg.file.st # "denied"
    /\ f # cfg.file
    /\ cfg' = [cfg EXCEPT !.file = f, !.op = "edit"]
    /\ UNCHANGED <<fs, index, notes, proc, s_kasten, s_zettels, sent, last, editor, widgets>>

ConfigNext ==
    \/ ConfigLoad
    \/ \E f \in ConfigFiles \ {Denied} : ConfigEdit(f)

ConfigSpec == ConfigInit /\ [][ConfigNext]_vars

\* =================================================================== claims
\* What the format contract (spec 4.1, 6) says of a file's bytes.
OpensHeader(d) == d # <<>> /\ SplitLines(d)[1] = Delimiter
ClosesHeader(d) == \E i \in 2..Len(SplitLines(d)) : SplitLines(d)[i] = Delimiter

EncodedLen == Len(Encode("", <<>>))
BodyIn(f) == SubSeq(f.data, EncodedLen + 1, Len(f.data))
WellFormed(f) ==
    /\ f.st = "ok"
    /\ IsText(f.data)
    /\ \E t \in Titles \cup {""} : f.data = Encode(t, BodyIn(f))
TitleIn(f) == CHOOSE t \in Titles \cup {""} : f.data = Encode(t, BodyIn(f))
Present == {p \in Ids : IsPresent(p)}

\* C1: with the index built, B is in backlinks(A) exactly when A is the
\* identity of a `[title](identity)` occurrence in the body of B's file.
C1_BacklinksMatchBodies ==
    index.built =>
        \A A \in Ids, B \in Ids :
            (B \in index.map[A])
                <=> (WellFormed(fs[B]) /\ A \in ExtractLinks(BodyIn(fs[B])))

\* C2: a successful save of note n with the index built leaves n in
\* backlinks(t) exactly for the identities t its saved text links to, and
\* leaves every other note's entries as they were.
C2_SaveUpdatesBacklinks ==
    [][(last'.op = "save" /\ last'.kind = "Ok" /\ index.built /\ last' # last)
         => /\ \A t \in Ids :
                  (last'.id \in index'.map[t]) <=> (t \in ExtractLinks(last'.text))
            /\ \A t \in Ids :
                  index'.map[t] \ {last'.id} = index.map[t] \ {last'.id}]_vars

\* C3: iterate() yields one element per note file, Ok for every well-formed
\* note and Err for every other file, whatever their order.
C3_IterateOnePerFile ==
    (last.op = "iter" /\ proc = "running") =>
        /\ Len(last.elems) = Len(NoteFiles)
        /\ \A i \in 1..Len(NoteFiles) :
              (last.elems[i].kind = "Ok") <=> WellFormed(fs[NoteFiles[i]])

\* C4: over a slip-box of well-formed notes, search_title(q) returns exactly
\* the identities of the notes whose title contains q, case ignored.
C4_SearchTitleExact ==
    (last.op = "search" /\ \A p \in Present : WellFormed(fs[p])) =>
        /\ last.kind = "Ok"
        /\ last.set = {p \in Present : TitleMatches(TitleIn(fs[p]), last.q)}

\* C5: when notes fail to load during search_title, the call reports
\* SearchFailed with a skipped count equal to the number of notes that failed.
C5_SearchReportsSkipped ==
    (last.op = "search" /\ \E p \in Present : Zettel_from_md(p).kind # "Ok") =>
        /\ last.kind = "SearchFailed"
        /\ last.skipped = Cardinality({p \in Present : Zettel_from_md(p).kind # "Ok"})

\* C6: decode(encode(metadata, body)) = (metadata, body) for a non-empty title
\* and a body with no line equal to `+++`.
C6_RoundTrip ==
    (last.op = "roundtrip" /\ last.title # "" /\ ~HasLine(last.text, Delimiter)) =>
        /\ last.kind = "Ok"
        /\ last.z.header.title = last.title
        /\ last.z.content = last.text

\* C7: a file whose first line is not the `+++` delimiter decodes to default
\* metadata and a body equal to the whole file.
C7_NoFrontMatterDecodes ==
    (/\ last.op = "load"
     /\ fs[last.id].st = "ok"
     /\ IsText(fs[last.id].data)
     /\ FirstLine(fs[last.id].data) # Delimiter) =>
        /\ last.kind = "Ok"
        /\ last.z.header = NoHeader
        /\ last.z.content = fs[last.id].data

\* C8: a file whose first line is `+++` and which has no later `+++` line
\* decodes to a header parse error and no note.
C8_UnclosedHeaderIsError ==
    (/\ last.op = "load"
     /\ fs[last.id].st = "ok"
     /\ OpensHeader(fs[last.id].data)
     /\ ~ClosesHeader(fs[last.id].data)) =>
        /\ last.kind = "ParseHeaderError"
        /\ last.z = NoZettel
        /\ ~notes[last.id].has

\* A file that opens a header holding a title line and never closes it has
\* been decoded and refused.
C8_UnclosedDecoded ==
    /\ last.op = "load"
    /\ last.kind = "ParseHeaderError"
    /\ OpensHeader(fs[last.id].data)
    /\ ~ClosesHeader(fs[last.id].data)
    /\ HasLine(fs[last.id].data, <<TitleLine("Notes")>>)

\* The header text of d ends at position i: d is `+++`, the complete lines
\* d[5..i] holding no `+++` line, then `+++` as a line of its own.
FramedAt(d, i) ==
    /\ Len(d) >= i + 3
    /\ SubSeq(d, 1, 4) = Delimiter \o <<LF>>
    /\ (i = 4 \/ d[i] = LF)
    /\ SubSeq(d, i + 1, i + 3) = Delimiter
    /\ (Len(d) = i + 3 \/ d[i + 4] = LF)
    /\ ~HasLine(SubSeq(d, 5, i), Delimiter)

\* C9: a file `+++`, header lines, `+++`, body decodes to the metadata parsed
\* from the header lines alone and to the body after the closing line.
C9_DelimitedHeaderDecodes ==
    (last.op = "load" /\ fs[last.id].st = "ok" /\ IsText(fs[last.id].data)) =>
        \A i \in 4..Len(fs[last.id].data) :
            (/\ FramedAt(fs[last.id].data, i)
             /\ toml_from_str(SubSeq(fs[last.id].data, 5, i)).ok) =>
                /\ last.kind = "Ok"
                /\ last.z.header = toml_from_str(SubSeq(fs[last.id].data, 5, i)).header
                /\ last.z.content =
                       SubSeq(fs[last.id].data, i + 5, Len(fs[last.id].data))

\* C10: a load that follows a successful save of the same identity returns
\* the title and body that were saved.
C10_SaveThenLoad ==
    [][(/\ last.op = "save" /\ last.kind = "Ok"
        /\ last'.op = "load" /\ last'.id = last.id)
         => /\ last'.kind = "Ok"
            /\ last'.z.header.title = last.title
            /\ last'.z.content = last.text]_vars

C12_SettersReplaceField ==
    [][/\ (last'.op = "set_title") =>
             /\ notes'[last'.id].z.header.title = last'.title
             /\ notes'[last'.id].z.content = notes[last'.id].z.content
             /\ notes'[last'.id].z.path = notes[last'.id].z.path
             /\ fs' = fs
       /\ (last'.op = "set_body") =>
             /\ notes'[last'.id].z.content = last'.text
             /\ notes'[last'.id].z.header = notes[last'.id].z.header
             /\ notes'[last'.id].z.path = notes[last'.id].z.path
             /\ fs' = fs]_vars

\* C13: links() read right after a load or a set_body equals the link set
\* extracted from the body the note then has.
C13_LinksFollowBody ==
    [][(last'.op = "links" /\ last'.id = last.id) =>
           /\ (last.op = "set_body") => last'.set = ExtractLinks(last.text)
           /\ (last.op = "load" /\ last.kind = "Ok")
                 => last'.set = ExtractLinks(last.z.content)]_vars

\* C17: ZettelHeader::read returns, a header text or an error, for every file.
C17_ReadTerminates ==
    (last.op = "load") => (last.kind # "Diverge" /\ proc = "running")

\* A well-formed `[title](identity)` occurrence: `[` at i, the first `]` after
\* it at j, then `(`, one identity, `)`.
LinkAt(body, i, j) ==
    /\ i < j
    /\ j + 3 <= Len(body)
    /\ body[i] = LB
    /\ body[j] = RB
    /\ \A k \in (i+1)..(j-1) : body[k] # RB
    /\ body[j+1] = LP
    /\ IsWord(body[j+2])
    /\ body[j+3] = RP

WellFormedLinks(body) ==
    {body[p[2] + 2] : p \in {q \in (1..Len(body)) \X (1..Len(body)) :
                                LinkAt(body, q[1], q[2])}}

Creatable ==
    /\ ~cfg.full
    /\ (cfg.was.dir = "missing" /\ cfg.home) \/ cfg.was.dir = "dir"

StartedWithout == cfg.op = "load" /\ (cfg.was.dir = "missing" \/ cfg.was.st = "missing")

LoadedDefaults ==
    /\ cfg.dir = "dir"
    /\ cfg.file = File(DEFAULT_CONFIG_CONTENT)
    /\ cfg.ret.kind = "Ok"
    /\ cfg.ret.config = Config_from_str(DEFAULT_CONFIG_CONTENT).config
    /\ cfg.ret.config[<<"colors", "red">>] = "#D50000"

\* C16 as stated: a load started without the config directory or without
\* config.toml creates the directory, writes the default content and returns
\* Ok with the configuration parsed from it.
C16_LoadCreatesDefaults == StartedWithout => LoadedDefaults

\* C16, amended: a load started without the config directory or without
\* config.toml, on a file system that lets them be created, creates the
\* directory, writes the default content and returns Ok with the configuration
\* parsed from it; where creation is refused it returns an IOError.
C16_LoadCreatesDefaultsIfAllowed ==
    StartedWithout =>
        /\ Creatable => LoadedDefaults
        /\ ~Creatable => (cfg.ret.kind = "IOError" /\ cfg.ret.config = NoValues)

\* A first run: neither the directory nor the file was there, and the load
\* returned the defaults.
C16_FirstRunLoaded ==
    /\ cfg.op = "load"
    /\ cfg.was.dir = "missing"
    /\ cfg.ret.kind = "Ok"
    /\ cfg.ret.config[<<"colors", "red">>] = "#D50000"
    /\ cfg.file = File(DEFAULT_CONFIG_CONTENT)

\* C15: every Err element of kasten.iter() and every Err of
\* kasten.search_title that a handler of the search dialog meets is answered
\* by one error notification to the parent, the handler goes through all the
\* items, and the process keeps running.
C15_FailuresNotified ==
    /\ (last.op = "ui-init") =>
           /\ proc = "running"
           /\ sent = LoadFailures(SelectSeq(Kasten_iter, IsErr))
           /\ Len(s_zettels) + Len(sent) = Len(NoteFiles)
    /\ (last.op = "ui-search") =>
           /\ proc = "running"
           /\ (last.kind = "SearchFailed") => sent = <<SearchFailedMsg>>

Backlinks ==
    LET Scan(elems) ==
            IF Hangs(elems) THEN [hung |-> TRUE, map |-> NoIndex.map]
            ELSE [hung |-> FALSE,
                  map |-> [t \in Ids |-> {z.path : z \in {n \in OkNotes(elems) :
                                                             t \in Zettel_links(n)}}]]
    IN  IF index.built THEN [hung |-> FALSE, map |-> index.map]
        ELSE Scan(Kasten_iter)

Found(elems, set) ==
    LET Hit(e) == e.kind = "Ok" /\ e.z.path \in set
    IN  ZettelsOf(SelectSeq(elems, Hit))

LoaderAt(c) == [home |-> c.home, full |-> c.full, dir |-> c.dir, file |-> c.file]

\* C24: a load that finds config.toml there leaves the file, every byte of
\* it, and the directory as they were, whatever it returns (Ok, a parse
\* error, a codec error, an I/O error on a file it may not read), and a load
\* repeated right after it returns the same result and again leaves the file.
C24_LoadKeepsExistingFile ==
    [][(cfg'.op = "load" /\ cfg.file.st # "missing") =>
           /\ cfg'.file = cfg.file
           /\ cfg'.dir = cfg.dir
           /\ cfg'.ret.kind \in {"Ok", "ParseError", "CodecError", "IOError"}
           /\ ConfigLoader_load(LoaderAt(cfg')).ret = cfg'.ret
           /\ ConfigLoader_load(LoaderAt(cfg')).c.file = cfg.file]_vars

\* A config.toml that lacks a required colour has been loaded: the load
\* returned a parse error and the file is still the one the user wrote.
C24_BrokenFileLoaded ==
    /\ cfg.op = "load"
    /\ cfg.was.st = "ok"
    /\ cfg.ret.kind = "ParseError"
    /\ cfg.file = File(SelectSeq(DEFAULT_CONFIG_CONTENT, IsNotRed))

====
